---- MODULE Spec2Model ----
(***************************************************************************)
(* Model of the chat backend in src/main.py: six route handlers over one   *)
(* SQLite file.  Every handler opens its own connection (sqlite3.connect   *)
(* with the default timeout and the default deferred isolation level), so  *)
(* a handler's first INSERT/DELETE opens a write transaction that holds    *)
(* the database's single write lock until commit() or until the connection *)
(* is dropped, which rolls the transaction back.  A SELECT outside a       *)
(* transaction reads the committed state.  Foreign keys are declared but   *)
(* not enforced (no PRAGMA foreign_keys), and AUTOINCREMENT never reuses a *)
(* rowid.  A handler's actions are cut where another request can observe   *)
(* or change something in between: at each statement that reads committed  *)
(* state, at the statement that takes the write lock, and around the       *)
(* external call.  Statements a connection runs while it already holds the *)
(* lock, up to its commit(), are one action when nothing can fail between  *)
(* them.  int(time.time()) is read in the step of the INSERT that stores   *)
(* it.                                                                     *)
(***************************************************************************)
EXTENDS Integers, Sequences, FiniteSets, TLC

\* ---------------------------------------------------------------- bounds
MaxChats == 2
MaxMsgs == 4
MaxClock == 1

Reqs == {1, 2}
Names == {"demo", "work"}
Prompts == {"hi"}
Answers == {"hello"}
Errors == {"", "quota"}
ChatIds == 1..MaxChats

VARIABLES
    db,        \* committed content of tmp_chats.db
    txn,       \* working copy of the connection holding the write lock
    writer,    \* request whose connection holds the write lock, 0 if none
    clock,     \* time.time() in whole seconds
    pc,        \* position of each in-flight request inside its handler
    req,       \* the request each handler was called with
    response,  \* outcome of chat.invoke in ask_gemini
    answer,    \* ask_gemini's local `answer`
    out        \* the request answered by the last step and its HTTP response

vars == <<db, txn, writer, clock, pc, req, response, answer, out>>

\* ---------------------------------------------------------------- schema
init_db == [chats |-> <<>>, messages |-> <<>>, chatSeq |-> 0, msgSeq |-> 0]

PromptRequest == [op : {"ask"}, chat_id : ChatIds, text : Prompts]

NewChatRequest == [op : {"new_chat"}, chat_id : {0}, text : Names]

PathRequest == [op : {"get_messages", "delete_chat"}, chat_id : ChatIds, text : {""}]

BareRequest == [op : {"get_chats", "clear_chats"}, chat_id : {0}, text : {""}]

NoRequest == [op |-> "none", chat_id |-> 0, text |-> ""]

NoResponse == [kind |-> "none", val |-> ""]

NoAnswer == [isText |-> TRUE, val |-> ""]

NoRes == [status |-> 0]

NoOut == [req |-> NoRequest, response |-> NoResponse, res |-> NoRes]

Ok(body) == [status |-> 200, body |-> body]

HTTPException(code, detail) == [status |-> code, detail |-> detail]

NotFound == HTTPException(404, "Chat not found")

Locked == "database is locked"

BindError == "Error binding parameter"

\* ------------------------------------------------------------- SQL pieces
\* ORDER BY timestamp over a table without an index on timestamp: SQLite scans
\* the rows in rowid order and sorts them with a sorter that leaves rows of
\* equal timestamp in the order they were scanned.
\* ties come out in reverse rowid order
RECURSIVE InsertAsc_Unstable(_, _)
InsertAsc_Unstable(row, s) ==
    IF s = <<>> THEN <<row>>
    ELSE IF s[Len(s)].timestamp < row.timestamp THEN Append(s, row)
    ELSE Append(InsertAsc_Unstable(row, SubSeq(s, 1, Len(s) - 1)), s[Len(s)])

RECURSIVE InsertAsc(_, _)
InsertAsc(row, s) ==
    IF s = <<>> THEN <<row>>
    ELSE IF s[Len(s)].timestamp <= row.timestamp THEN Append(s, row)
    ELSE Append(InsertAsc(row, SubSeq(s, 1, Len(s) - 1)), s[Len(s)])

RECURSIVE OrderByTimestampAsc(_)
OrderByTimestampAsc(rows) ==
    IF rows = <<>> THEN <<>>
    ELSE InsertAsc(rows[Len(rows)], OrderByTimestampAsc(SubSeq(rows, 1, Len(rows) - 1)))

RECURSIVE InsertDesc(_, _)
InsertDesc(row, s) ==
    IF s = <<>> THEN <<row>>
    ELSE IF s[Len(s)].timestamp >= row.timestamp THEN Append(s, row)
    ELSE Append(InsertDesc(row, SubSeq(s, 1, Len(s) - 1)), s[Len(s)])

RECURSIVE OrderByTimestampDesc(_)
OrderByTimestampDesc(rows) ==
    IF rows = <<>> THEN <<>>
    ELSE InsertDesc(rows[Len(rows)], OrderByTimestampDesc(SubSeq(rows, 1, Len(rows) - 1)))

OwnedBy(rows, id) == SelectSeq(rows, LAMBDA m : m.chat_id = id)

NotOwnedBy(rows, id) == SelectSeq(rows, LAMBDA m : m.chat_id # id)

ChatExists(d, id) == \E i \in 1..Len(d.chats) : d.chats[i].id = id

SelectChats(d) ==
    LET chats == OrderByTimestampDesc(d.chats)
    IN [i \in 1..Len(chats) |->
           [chat_id |-> chats[i].id, chat_name |-> chats[i].chat_name]]

SelectMessages(d, id) ==
    LET msgs == OrderByTimestampAsc(OwnedBy(d.messages, id))
    IN [i \in 1..Len(msgs) |-> [sender |-> msgs[i].sender, text |-> msgs[i].text]]

\* the name is not bound to the INSERT
InsertChat_Unnamed(d, name, ts) ==
    [d EXCEPT !.chats = Append(@, [id |-> d.chatSeq + 1, chat_name |-> "",
                                   timestamp |-> ts]),
              !.chatSeq = @ + 1]

InsertChat(d, name, ts) ==
    [d EXCEPT !.chats = Append(@, [id |-> d.chatSeq + 1, chat_name |-> name,
                                   timestamp |-> ts]),
              !.chatSeq = @ + 1]

\* sender and text bound to each other's column
InsertMessage_Swapped(d, id, sender, text, ts) ==
    [d EXCEPT !.messages = Append(@, [id |-> d.msgSeq + 1, chat_id |-> id,
                                      sender |-> text, text |-> sender,
                                      timestamp |-> ts]),
              !.msgSeq = @ + 1]

InsertMessage(d, id, sender, text, ts) ==
    [d EXCEPT !.messages = Append(@, [id |-> d.msgSeq + 1, chat_id |-> id,
                                      sender |-> sender, text |-> text,
                                      timestamp |-> ts]),
              !.msgSeq = @ + 1]

Fallback(e) == "Sorry, I encountered an error: " \o e

\* ------------------------------------------------------------------ Init
Init ==
    /\ db = init_db
    /\ txn = init_db
    /\ writer = 0
    /\ clock = 0
    /\ pc = [r \in Reqs |-> "idle"]
    /\ req = [r \in Reqs |-> NoRequest]
    /\ response = [r \in Reqs |-> NoResponse]
    /\ answer = [r \in Reqs |-> NoAnswer]
    /\ out = NoOut

\* --------------------------------------------------------------- helpers
InFlight(o) == Cardinality({r \in Reqs : req[r].op = o})

\* the handler is entered with request q and goes on to label
Enter(r, q, label) ==
    /\ pc[r] = "idle"
    /\ pc' = [pc EXCEPT ![r] = label]
    /\ req' = [req EXCEPT ![r] = q]
    /\ out' = NoOut
    /\ UNCHANGED <<response, answer>>

Goto(r, label) == pc' = [pc EXCEPT ![r] = label] /\ out' = NoOut /\ UNCHANGED req

\* the handler returns or raises: the response is sent, its locals are gone
Reply(r, q, o, result) ==
    /\ out' = [req |-> q, response |-> o, res |-> result]
    /\ pc' = [pc EXCEPT ![r] = "idle"]
    /\ req' = [req EXCEPT ![r] = NoRequest]
    /\ response' = [response EXCEPT ![r] = NoResponse]
    /\ answer' = [answer EXCEPT ![r] = NoAnswer]

\* another connection holds the write lock until the busy timeout expires
Busy(r) == writer # 0 /\ writer # r

\* the first write statement of a connection takes the write lock
Begin(r) == writer = 0 /\ writer' = r

Commit(t) == db' = t /\ txn' = t /\ writer' = 0

\* a connection dropped without commit() loses its transaction
Rollback == txn' = db /\ writer' = 0 /\ UNCHANGED db

Tick ==
    /\ clock < MaxClock
    /\ clock' = clock + 1
    /\ out' = NoOut
    /\ UNCHANGED <<db, txn, writer, pc, req, response, answer>>

\* -------------------------------------------------------------- new_chat
NewChat(r) ==
    /\ pc[r] = "idle"
    /\ writer = 0
    /\ db.chatSeq < MaxChats
    /\ \E q \in NewChatRequest :
          /\ Commit(InsertChat(db, q.text, clock))
          /\ Reply(r, q, NoResponse,
                   Ok([chat_id |-> db.chatSeq + 1, chat_name |-> q.text]))
    /\ UNCHANGED clock

NewChatLocked(r) ==
    /\ pc[r] = "idle"
    /\ Busy(r)
    /\ \E q \in NewChatRequest :
          Reply(r, q, NoResponse,
                HTTPException(500, "Failed to create chat: " \o Locked))
    /\ UNCHANGED <<db, txn, writer, clock>>

new_chat(r) == NewChat(r) \/ NewChatLocked(r)

\* ------------------------------------------------------------- get_chats
GetChats(r) ==
    /\ pc[r] = "idle"
    /\ \E q \in {b \in BareRequest : b.op = "get_chats"} :
          Reply(r, q, NoResponse, Ok(SelectChats(db)))
    /\ UNCHANGED <<db, txn, writer, clock>>

get_chats(r) == GetChats(r)

\* ---------------------------------------------------------- get_messages
GetMessagesCheck(r) ==
    /\ pc[r] = "idle"
    /\ \E q \in {p \in PathRequest : p.op = "get_messages"} :
          IF ChatExists(db, q.chat_id)
             THEN Enter(r, q, "get_messages_select")
             ELSE Reply(r, q, NoResponse, NotFound)
    /\ UNCHANGED <<db, txn, writer, clock>>

GetMessagesSelect(r) ==
    /\ pc[r] = "get_messages_select"
    /\ Reply(r, req[r], NoResponse, Ok(SelectMessages(db, req[r].chat_id)))
    /\ UNCHANGED <<db, txn, writer, clock>>

get_messages(r) == GetMessagesCheck(r) \/ GetMessagesSelect(r)

\* ------------------------------------------------------------ ask_gemini
AskCheck(r) ==
    /\ pc[r] = "idle"
    /\ db.msgSeq + 2 * (InFlight("ask") + 1) <= MaxMsgs
    /\ \E q \in PromptRequest :
          IF ChatExists(db, q.chat_id)
             THEN Enter(r, q, "ask_insert_user")
             ELSE Reply(r, q, NoResponse, NotFound)
    /\ UNCHANGED <<db, txn, writer, clock>>

\* the user message is committed by its own INSERT
AskInsertUser_Autocommit(r) ==
    /\ pc[r] = "ask_insert_user"
    /\ Begin(r)
    /\ txn' = InsertMessage(txn, req[r].chat_id, "user", req[r].text, clock)
    /\ db' = txn'
    /\ Goto(r, "ask_invoke")
    /\ UNCHANGED <<clock, response, answer>>

AskInsertUser(r) ==
    /\ pc[r] = "ask_insert_user"
    /\ Begin(r)
    /\ txn' = InsertMessage(txn, req[r].chat_id, "user", req[r].text, clock)
    /\ Goto(r, "ask_invoke")
    /\ UNCHANGED <<db, clock, response, answer>>

AskLocked(r) ==
    /\ pc[r] = "ask_insert_user"
    /\ Busy(r)
    /\ Reply(r, req[r], NoResponse,
             HTTPException(500, "Failed to process request: " \o Locked))
    /\ UNCHANGED <<db, txn, writer, clock>>

\* chat.invoke returns text, returns content that is not a string, or raises
Invoke ==
    [kind : {"text"}, val : Answers] \cup [kind : {"parts"}, val : {""}]
        \cup [kind : {"raise"}, val : Errors]

\* the failure detail alone becomes the answer
AnswerOf_Raw(o) == [isText |-> o.kind # "parts", val |-> o.val]

AnswerOf(o) ==
    IF o.kind = "raise" THEN [isText |-> TRUE, val |-> Fallback(o.val)]
    ELSE [isText |-> o.kind = "text", val |-> o.val]

AskInvoke(r) ==
    /\ pc[r] = "ask_invoke"
    /\ \E o \in Invoke :
          /\ response' = [response EXCEPT ![r] = o]
          /\ answer' = [answer EXCEPT ![r] = AnswerOf(o)]
    /\ Goto(r, "ask_insert_bot")
    /\ UNCHANGED <<db, txn, writer, clock>>

AskInsertBot(r) ==
    /\ pc[r] = "ask_insert_bot"
    /\ writer = r
    /\ answer[r].isText
    /\ Commit(InsertMessage(txn, req[r].chat_id, "bot", answer[r].val, clock))
    /\ Reply(r, req[r], response[r], Ok([answer |-> answer[r].val]))
    /\ UNCHANGED clock

\* an answer that is not a string cannot be bound to the INSERT
AskBindError(r) ==
    /\ pc[r] = "ask_insert_bot"
    /\ writer = r
    /\ ~answer[r].isText
    /\ Rollback
    /\ Reply(r, req[r], response[r],
             HTTPException(500, "Failed to process request: " \o BindError))
    /\ UNCHANGED clock

ask_gemini(r) ==
    \/ AskCheck(r) \/ AskInsertUser(r) \/ AskLocked(r) \/ AskInvoke(r)
    \/ AskInsertBot(r) \/ AskBindError(r)

\* ----------------------------------------------------------- delete_chat
\* the handler goes on without looking the chat up
DeleteCheck_Unchecked(r) ==
    /\ pc[r] = "idle"
    /\ \E q \in {p \in PathRequest : p.op = "delete_chat"} :
          Enter(r, q, "delete_messages")
    /\ UNCHANGED <<db, txn, writer, clock>>

DeleteCheck(r) ==
    /\ pc[r] = "idle"
    /\ \E q \in {p \in PathRequest : p.op = "delete_chat"} :
          IF ChatExists(db, q.chat_id)
             THEN Enter(r, q, "delete_messages")
             ELSE Reply(r, q, NoResponse, NotFound)
    /\ UNCHANGED <<db, txn, writer, clock>>

\* only the chat row is deleted
DeleteRows_ChatOnly(d, id) ==
    [d EXCEPT !.chats = SelectSeq(@, LAMBDA c : c.id # id)]

DeleteRows(d, id) ==
    [d EXCEPT !.messages = NotOwnedBy(@, id),
              !.chats = SelectSeq(@, LAMBDA c : c.id # id)]

DeleteChat(r) ==
    /\ pc[r] = "delete_messages"
    /\ writer = 0
    /\ Commit(DeleteRows(db, req[r].chat_id))
    /\ Reply(r, req[r], NoResponse, Ok([message |-> "Chat deleted successfully"]))
    /\ UNCHANGED clock

DeleteLocked(r) ==
    /\ pc[r] = "delete_messages"
    /\ Busy(r)
    /\ Reply(r, req[r], NoResponse,
             HTTPException(500, "Failed to delete chat: " \o Locked))
    /\ UNCHANGED <<db, txn, writer, clock>>

delete_chat(r) == DeleteCheck(r) \/ DeleteChat(r) \/ DeleteLocked(r)

\* ------------------------------------------------------- clear_all_chats
\* only the messages are deleted
ClearRows_MessagesOnly(d) == [d EXCEPT !.messages = <<>>]

ClearRows(d) == [d EXCEPT !.messages = <<>>, !.chats = <<>>]

ClearAll(r) ==
    /\ pc[r] = "idle"
    /\ writer = 0
    /\ Commit(ClearRows(db))
    /\ \E q \in {b \in BareRequest : b.op = "clear_chats"} :
          Reply(r, q, NoResponse, Ok([message |-> "All chats cleared successfully"]))
    /\ UNCHANGED clock

ClearLocked(r) ==
    /\ pc[r] = "idle"
    /\ Busy(r)
    /\ \E q \in {b \in BareRequest : b.op = "clear_chats"} :
          Reply(r, q, NoResponse,
                HTTPException(500, "Failed to clear chats: " \o Locked))
    /\ UNCHANGED <<db, txn, writer, clock>>

clear_all_chats(r) == ClearAll(r) \/ ClearLocked(r)

\* ------------------------------------------------------- specifications
Handler(r) ==
    \/ new_chat(r) \/ get_chats(r) \/ get_messages(r)
    \/ ask_gemini(r) \/ delete_chat(r) \/ clear_all_chats(r)

\* The server handles requests concurrently, each on its own connection.
\* Nothing checked under Spec depends on the order of rows or on a timestamp,
\* so its requests all fall within one second of the clock; SeqSpec is the
\* specification in which the clock advances.
Next == \E r \in Reqs : Handler(r)

Spec == Init /\ [][Next]_vars
\* one worker serves one request at a time
Serve(r) ==
    \/ NewChat(r) \/ GetChats(r) \/ GetMessagesCheck(r) \/ GetMessagesSelect(r)
    \/ AskCheck(r) \/ AskInsertUser(r) \/ AskInvoke(r) \/ AskInsertBot(r)
    \/ AskBindError(r) \/ DeleteCheck(r) \/ DeleteChat(r) \/ ClearAll(r)

SeqNext == Tick \/ Serve(1)

SeqSpec == Init /\ [][SeqNext]_vars

\* ---------------------------------------------------------------- claims
Ids(d) == {d.chats[i].id : i \in DOMAIN d.chats}

Owners(d) == {d.messages[i].chat_id : i \in DOMAIN d.messages}

Checked == {"ask", "get_messages", "delete_chat"}

Replied(o) == out'.req.op = o /\ out'.res.status # 0

\* the step appends exactly the rows <<user, prompt>>, <<bot, text>> of chat id
AppendsPair(id, prompt, text) ==
    LET n == Len(db.messages) IN
    /\ Len(db'.messages) = n + 2
    /\ SubSeq(db'.messages, 1, n) = db.messages
    /\ db'.messages[n + 1].chat_id = id
    /\ db'.messages[n + 1].sender = "user"
    /\ db'.messages[n + 1].text = prompt
    /\ db'.messages[n + 2].chat_id = id
    /\ db'.messages[n + 2].sender = "bot"
    /\ db'.messages[n + 2].text = text
    /\ db'.messages[n + 1].id < db'.messages[n + 2].id
    /\ db'.chats = db.chats

\* C1: an ask whose model call returned text A answers {answer: A} and adds
\* exactly the user prompt and then the bot answer A to its chat; no other
\* message and no chat changes.
C1_AskStoresPromptThenAnswer ==
    [][\A r \in Reqs :
          (pc[r] = "ask_insert_bot" /\ response[r].kind = "text" /\ pc'[r] # pc[r])
             => /\ out'.req = req[r]
                /\ out'.res = [status |-> 200, body |-> [answer |-> response[r].val]]
                /\ AppendsPair(req[r].chat_id, req[r].text, response[r].val)]_vars

C1_Witness ==
    /\ out.req.op = "ask" /\ out.response.kind = "text" /\ out.res.status = 200
    /\ Len(db.messages) = 4
    /\ Cardinality(Owners(db)) = 2

\* C2: when the model call raises, the ask goes on, answers 200 with a
\* non-empty answer and stores the user prompt and a bot message whose text
\* is the returned answer.
C2_ModelFailureAbsorbed ==
    [][\A r \in Reqs :
          /\ (pc[r] = "ask_invoke" /\ pc'[r] # pc[r])
                => (pc'[r] = "ask_insert_bot" /\ out'.res.status = 0 /\ db' = db)
          /\ (pc[r] = "ask_insert_bot" /\ response[r].kind = "raise" /\ pc'[r] # pc[r])
                => /\ out'.req = req[r]
                   /\ out'.res.status = 200
                   /\ out'.res.body.answer # ""
                   /\ AppendsPair(req[r].chat_id, req[r].text, out'.res.body.answer)]_vars

C2_Witness ==
    /\ out.req.op = "ask" /\ out.response.kind = "raise" /\ out.res.status = 200
    /\ out.res.body.answer # ""
    /\ Len(db.messages) >= 2
    /\ db.messages[Len(db.messages)].text = out.res.body.answer

\* C3: delete_chat, ask and get_messages on a chat id that does not exist
\* answer 404 and change nothing in the store; a handler goes past its
\* existence check only for a chat that exists.
C3_MissingChatIs404 ==
    [][/\ (out'.req.op \in Checked /\ out'.res.status # 0 /\ pc' = pc)
             => /\ out'.req.chat_id \notin Ids(db)
                /\ out'.res = [status |-> 404, detail |-> "Chat not found"]
       /\ \A r \in Reqs :
             (pc[r] = "idle" /\ pc'[r] # "idle" /\ req'[r].op \in Checked)
                => (req'[r].chat_id \in Ids(db) /\ out'.res.status = 0)
       /\ out'.res.status = 404
             => (db' = db /\ txn' = txn /\ writer' = writer)]_vars

C3_Witness ==
    /\ out.req.op = "delete_chat" /\ out.res.status = 404
    /\ Len(db.messages) >= 2
    /\ db.chats # <<>>

\* C4: deleting an existing chat removes the chat and all its messages and
\* nothing else; its id is never given to a later chat, so get_messages on it
\* is a 404 from then on.
C4_DeleteRemovesChatAndMessages ==
    [][/\ \A r \in Reqs :
             (pc[r] = "delete_messages" /\ pc'[r] # pc[r] /\ out'.res.status = 200)
                => LET c == req[r].chat_id IN
                   /\ c \notin Ids(db')
                   /\ c \notin Owners(db')
                   /\ \A i \in DOMAIN SelectChats(db') : SelectChats(db')[i].chat_id # c
                   /\ db'.chats = SelectSeq(db.chats, LAMBDA x : x.id # c)
                   /\ db'.messages = SelectSeq(db.messages, LAMBDA m : m.chat_id # c)
       /\ \A id \in Ids(db') \ Ids(db) : id > db.chatSeq
       /\ Ids(db') \subseteq 1..db'.chatSeq
       /\ db'.chatSeq >= db.chatSeq]_vars

C4_Witness ==
    /\ out.req.op = "delete_chat" /\ out.res.status = 200
    /\ Len(db.chats) = 1
    /\ Len(db.messages) = 2
    /\ db.msgSeq = 4

\* C5: after clear_all_chats the chat list is empty, no message is stored and
\* no id that was valid before exists; the id counter is kept, so none of
\* those ids comes back.
C5_ClearLeavesNothing ==
    [][Replied("clear_chats") /\ out'.res.status = 200
          => /\ SelectChats(db') = <<>>
             /\ db'.chats = <<>>
             /\ db'.messages = <<>>
             /\ \A id \in Ids(db) : ~ChatExists(db', id) /\ id <= db'.chatSeq
             /\ db'.chatSeq = db.chatSeq]_vars

C5_Witness ==
    /\ out.req.op = "clear_chats" /\ out.res.status = 200
    /\ db.chatSeq = 2
    /\ db.msgSeq >= 2
    /\ db.chats = <<>>

\* C6: new_chat answers a chat id that the chat list then shows exactly once,
\* with the given name, and every chat listed before is still listed.
C6_NewChatListedOnce ==
    [][Replied("new_chat") /\ out'.res.status = 200
          => LET before == SelectChats(db)
                 after == SelectChats(db')
                 id == out'.res.body.chat_id
             IN /\ Cardinality({i \in DOMAIN after : after[i].chat_id = id}) = 1
                /\ \A i \in DOMAIN after :
                      after[i].chat_id = id => after[i].chat_name = out'.req.text
                /\ \A j \in DOMAIN before : \E i \in DOMAIN after : after[i] = before[j]
                /\ Len(after) = Len(before) + 1]_vars

C6_Witness ==
    /\ out.req.op = "new_chat" /\ out.res.status = 200
    /\ Len(db.chats) = 2
    /\ out.res.body.chat_id = 2

\* C7: with one request at a time and a clock that never goes back, the
\* messages get_messages returns for a chat are in non-decreasing timestamp
\* order and in the order they were inserted, each prompt before its answer.
C7_MessagesInInsertionOrder ==
    /\ \A id \in ChatIds :
          LET inserted == SelectSeq(db.messages, LAMBDA m : m.chat_id = id)
              listed == OrderByTimestampAsc(OwnedBy(db.messages, id))
          IN /\ listed = inserted
             /\ \A i \in 1..(Len(listed) - 1) :
                   listed[i].timestamp <= listed[i + 1].timestamp
             /\ \A i \in DOMAIN listed :
                   listed[i].sender = (IF i % 2 = 1 THEN "user" ELSE "bot")
    /\ (out.req.op = "get_messages" /\ out.res.status = 200)
          => LET inserted == SelectSeq(db.messages, LAMBDA m : m.chat_id = out.req.chat_id)
             IN out.res.body = [i \in DOMAIN inserted |->
                                   [sender |-> inserted[i].sender, text |-> inserted[i].text]]

C7_Witness ==
    /\ out.req.op = "get_messages" /\ out.res.status = 200
    /\ Len(out.res.body) = 4
    /\ LET m == SelectSeq(db.messages, LAMBDA x : x.chat_id = out.req.chat_id)
       IN m[1].timestamp = m[2].timestamp /\ m[2].timestamp < m[3].timestamp

\* C8: no committed state holds a message whose owning chat does not exist.
C8_NoOrphanMessage == Owners(db) \subseteq Ids(db)

\* C9: an ask is never made to fail by an ask on another chat that is waiting
\* on the external model.
C9_AsksIndependent ==
    ~ /\ out.req.op = "ask"
      /\ out.res.status = 500
      /\ writer # 0
      /\ req[writer].op = "ask"
      /\ pc[writer] \in {"ask_invoke", "ask_insert_bot"}
      /\ req[writer].chat_id # out.req.chat_id
      /\ {req[writer].chat_id, out.req.chat_id} \subseteq Ids(db)

PairedAt(m, i) ==
    m[i].sender = "user"
       => /\ i < Len(m)
          /\ m[i + 1].sender = "bot"
          /\ m[i + 1].chat_id = m[i].chat_id
          /\ m[i + 1].id = m[i].id + 1

\* C10: in every committed state each user message is followed by the bot
\* message of the same ask, every list of messages a request receives holds
\* as many replies as prompts, and an ask answered with 500 stores nothing.
C10_AskIsAtomic ==
    /\ [](\A i \in DOMAIN db.messages : PairedAt(db.messages, i))
    /\ []((out.req.op = "get_messages" /\ out.res.status = 200)
             => Cardinality({i \in DOMAIN out.res.body : out.res.body[i].sender = "user"})
                   = Cardinality({i \in DOMAIN out.res.body : out.res.body[i].sender = "bot"}))
    /\ [][(out'.req.op = "ask" /\ out'.res.status = 500) => db' = db]_vars

C10_Witness ==
    /\ out.req.op = "ask" /\ out.res.status = 500
    /\ out.response.kind = "parts"
    /\ Len(db.messages) = 2
====
